---- MODULE Spec2Model ----
(***************************************************************************)
(* A model of RealTimeMetrics.py: the FreeSWITCH event-socket client       *)
(* (connect / execute / _recv_response / execute_multiple_commands), the   *)
(* tabular parser (parse_response and the pop of the total row), the poll  *)
(* loop around execute_and_process_commands and its two passes, the queue  *)
(* metrics and the agent metrics.                                          *)
(*                                                                         *)
(* Six specifications share the module:                                    *)
(*   Spec        the client, the batch and the poll loop, with the switch  *)
(*               as environment; the socket carries whole frames;          *)
(*   SpecReader  _recv_response alone on a character stream, where one     *)
(*               recv may end anywhere in the stream (FairSpecReader: the  *)
(*               same, with the loop taking its turns);                    *)
(*   SpecParse   parse_response and the pop of the last row on the text    *)
(*               of a table body;                                          *)
(*   SpecAgg     the queue pass and the agent pass of one cycle on parsed  *)
(*               agent, tier and queue tables;                             *)
(*   SpecSL      the service level SL60 of one queue, as a function of its *)
(*               two call counters;                                        *)
(*   SpecCycles  successive calls of execute_and_process_commands, each on *)
(*               the tables it fetched.                                    *)
(* The variables of the specifications not running keep their idle value.  *)
(***************************************************************************)
EXTENDS Integers, Sequences, FiniteSets, TLC

VARIABLES
    \* ---- FreeSWITCHClient and the poll loop (Spec)
    connection,      \* self.connection: "None" or "sock"
    sockState,       \* the OS socket behind it: none / unconnected / open / closed
    srv,             \* the switch: "up" or "down"
    srvAuthed,       \* the switch accepted the password on this connection
    pending,         \* frames the switch has still to send
    inbuf,           \* frames received by the socket and not yet read
    pc,              \* where the single thread of the program is
    cmdIdx,          \* index of the command of the batch being executed
    results,         \* execute_multiple_commands: results
    response,        \* _recv_response: response (frames read so far)
    content_length,  \* _recv_response: content_length ("None", or "set" to a length > 0)
    wire,            \* what the last client step wrote on the socket
    handshakeOK,     \* connect() saw auth/request and +OK on the current socket
    opens,           \* sockets created so far
    handshakes,      \* +OK handshakes completed so far
    attempted,       \* commands whose execute() was called in this batch
    batchRaised,     \* an exception left execute_multiple_commands
    tables,          \* what kind of tables the cycle fetched
    wroteQueue,      \* Realtime_Queue_Metrics_data was set in this cycle
    wroteAgent,      \* Realtime_Agent_Metrics_data was set in this cycle
    cycleError,      \* str(e) of the except branch of the last finished cycle, or ""
    emptyReads,      \* consecutive recv() calls of _recv_response that returned ""
    \* ---- _recv_response on a character stream (SpecReader)
    rstream,         \* characters the peer has still to deliver
    rpeer,           \* what the peer does at the end of the stream
    rresponse,       \* response
    rcl,             \* content_length (-1 for None)
    rpc,             \* recv (line 44) / check (46-51) / returned / timeout / IndexError
    rn,              \* Content-Length of the frame put on the stream (-1: none)
    \* ---- parse_response and pop (SpecParse)
    ptable,          \* the data rows of the table put in the body
    ptext,           \* the response text
    precords,        \* the records parsed
    ppc,             \* start / parsed / popped / ValueError / IndexError
    \* ---- the two passes of execute_and_process_commands (SpecAgg)
    agents,          \* agents: the records of the agent table
    tiers,           \* tiers: the records of the tier table
    queues,          \* queues: the records of the queue table
    now,             \* currenttimestamp_in_epoc, in whole seconds
    apc,             \* queues (109-194) / agents (197-253) / done / the exception raised
    queue_metrics,   \* value of Realtime_Queue_Metrics_data (NotSet before the set)
    agent_metrics,   \* value of Realtime_Agent_Metrics_data (NotSet before the set)
    \* ---- the service level of lines 141-145 as a function (SpecSL)
    slHandled,       \* Handled
    slAbandoned,     \* Abandoned
    slOut,           \* SL60, in hundredths
    slpc,            \* start / done
    \* ---- successive calls of execute_and_process_commands (SpecCycles)
    stale,           \* the locals combined_data_list, aht_agent_count and
                     \* agent_metrics_list as the call before left them
    published,       \* what the current call has set under the two keys
    history          \* the tables and the published values of the calls before

clientVars == <<connection, sockState, srv, srvAuthed, pending, inbuf, pc, cmdIdx,
                results, response, content_length, wire, handshakeOK, opens,
                handshakes, attempted, batchRaised, tables, wroteQueue, wroteAgent,
                cycleError, emptyReads>>
readerVars == <<rstream, rpeer, rresponse, rcl, rpc, rn>>
parseVars  == <<ptable, ptext, precords, ppc>>
aggVars    == <<agents, tiers, queues, now, apc, queue_metrics, agent_metrics>>
slVars     == <<slHandled, slAbandoned, slOut, slpc>>
cycVars    == <<stale, published, history>>
vars == <<clientVars, readerVars, parseVars, aggVars, slVars, cycVars>>

\* ---------------------------------------------------------------- bounds
MaxInFlight == 2     \* frames the switch has queued or sent and the client has not read
MaxOpens == 2        \* the socket counters saturate here
MaxEmptyReads == 2   \* the empty-read counter saturates here
MaxBody == 11        \* longest body of a frame put on the character stream
MaxRows == 2         \* most data rows of a table body

Min(a, b) == IF a < b THEN a ELSE b

\* ------------------------------------------------------------- the program
\* lines 266-270
commands == << "callcenter_config agent list",
               "callcenter_config tier list",
               "callcenter_config queue list" >>

NumCommands == Len(commands)

Range(s) == { s[i] : i \in DOMAIN s }

\* Frames of the wire protocol, whole.
AuthRequest == [type |-> "auth/request", text |-> ""]
ReplyOK == [type |-> "command/reply", text |-> "+OK"]
ReplyErr == [type |-> "command/reply", text |-> "-ERR"]
Banner == [type |-> "text/plain", text |-> ""]
ApiResponse(c) == [type |-> "api/response", text |-> c]

\* Only api/response frames carry a Content-Length header (of a non-empty body).
HasContentLength(f) == f.type = "api/response"

\* Values of the results mapping: a response (the frames read) or str(e).
Resp(fs) == [kind |-> "response", frames |-> fs, err |-> ""]
Err(e) == [kind |-> "error", frames |-> << >>, err |-> e]

EmptyResults == [c \in {} |-> Err("")]
Store(res, c, v) == [k \in (DOMAIN res) \cup {c} |-> IF k = c THEN v ELSE res[k]]

\* The exceptions of the program are named by their message (str(e)).

\* line 59: except Exception catches whatever execute() raises.
BatchCatchesConnectionError(e) == e # "timed out"
BatchCatches(e) == TRUE

\* line 256: except Exception catches whatever the cycle raises.
CycleCatchesValueError(e) == e = "Invalid response format"
CycleCatches(e) == TRUE

\* line 18: connect() does its work only when there is no connection object.
ConnectAlways(conn) == TRUE
ConnectNeeded(conn) == conn = "None"

\* What the fetched tables are like, as far as the two passes can tell.
TableKinds == {"clean", "timestamp not numeric", "counter not numeric"}
\* lines 134-184: int(queue["calls_answered"]) is not guarded; the bridge
\* timestamps are (try/except at 167-173).
QueuePassRaises(t) == t = "counter not numeric"
\* lines 198-203: int(agent.get("last_bridge_start", 0)) is not guarded.
AgentPassRaises(t) == t = "timestamp not numeric"

Inc(n, cap) == Min(n + 1, cap)

HasRoom == Len(pending) + Len(inbuf) < MaxInFlight

\* The except branch of execute_and_process_commands (256-257), or the
\* exception leaving it when the branch does not catch it.
CycleExcept(e) ==
    /\ pc' = IF CycleCatches(e) THEN "sleep" ELSE "crashed"
    /\ cycleError' = e

\* An exception raised inside execute(commands[cmdIdx]): lines 57-60.
Raise(e) ==
    IF BatchCatches(e)
    THEN /\ results' = Store(results, commands[cmdIdx], Err(e))
         /\ cmdIdx' = cmdIdx + 1
         /\ pc' = "batch"
         /\ UNCHANGED <<batchRaised, cycleError>>
    ELSE /\ batchRaised' = TRUE
         /\ CycleExcept(e)
         /\ UNCHANGED <<results, cmdIdx>>

\* execute() returns r: line 58.
Return(r) ==
    /\ results' = Store(results, commands[cmdIdx], r)
    /\ cmdIdx' = cmdIdx + 1
    /\ pc' = "batch"
    /\ UNCHANGED <<batchRaised, cycleError>>

InitClient ==
    /\ connection = "None"
    /\ sockState = "none"
    /\ srv \in {"up", "down"}
    /\ srvAuthed = FALSE
    /\ pending = << >>
    /\ inbuf = << >>
    /\ pc = "loop"
    /\ cmdIdx = 1
    /\ results = EmptyResults
    /\ response = << >>
    /\ content_length = "None"
    /\ wire = "none"
    /\ handshakeOK = FALSE
    /\ opens = 0
    /\ handshakes = 0
    /\ attempted = << >>
    /\ batchRaised = FALSE
    /\ tables = "none"
    /\ wroteQueue = FALSE
    /\ wroteAgent = FALSE
    /\ cycleError = ""
    /\ emptyReads = 0

IdleClient ==
    /\ connection = "None"
    /\ sockState = "none"
    /\ srv = "down"
    /\ srvAuthed = FALSE
    /\ pending = << >>
    /\ inbuf = << >>
    /\ pc = "off"
    /\ cmdIdx = 1
    /\ results = EmptyResults
    /\ response = << >>
    /\ content_length = "None"
    /\ wire = "none"
    /\ handshakeOK = FALSE
    /\ opens = 0
    /\ handshakes = 0
    /\ attempted = << >>
    /\ batchRaised = FALSE
    /\ tables = "none"
    /\ wroteQueue = FALSE
    /\ wroteAgent = FALSE
    /\ cycleError = ""
    /\ emptyReads = 0

IdleReader ==
    /\ rstream = << >>
    /\ rpeer = "silent"
    /\ rresponse = << >>
    /\ rcl = -1
    /\ rpc = "off"
    /\ rn = -1

IdleParse ==
    /\ ptable = << >>
    /\ ptext = << >>
    /\ precords = << >>
    /\ ppc = "off"

\* A store key that was not set.
NotSet == [set |-> FALSE, list |-> << >>]

IdleAgg ==
    /\ agents = << >>
    /\ tiers = << >>
    /\ queues = << >>
    /\ now = 0
    /\ apc = "off"
    /\ queue_metrics = NotSet
    /\ agent_metrics = NotSet

IdleSL ==
    /\ slHandled = 0
    /\ slAbandoned = 0
    /\ slOut = 0
    /\ slpc = "off"

\* Nothing set under either key.
NonePublished == [queue |-> NotSet, agent |-> NotSet]

\* The locals before the first call.
NoLocals == [combined_data_list |-> << >>, aht_agent_count |-> 0,
             agent_metrics_list |-> << >>]

IdleCyc ==
    /\ stale = NoLocals
    /\ published = NonePublished
    /\ history = << >>

\* ------------------------------------------------------ the poll loop
\* lines 278-280 and 91-93: the loop calls execute_and_process_commands,
\* which calls execute_multiple_commands (results = {}).
StartCycle ==
    /\ pc = "loop"
    /\ pc' = "batch"
    /\ cmdIdx' = 1
    /\ results' = EmptyResults
    /\ attempted' = << >>
    /\ batchRaised' = FALSE
    /\ wroteQueue' = FALSE
    /\ wroteAgent' = FALSE
    /\ wire' = "none"
    /\ UNCHANGED <<connection, sockState, srv, srvAuthed, pending, inbuf, response,
                   content_length, handshakeOK, opens, handshakes, tables,
                   cycleError, emptyReads>>
    /\ UNCHANGED <<readerVars, parseVars, aggVars, slVars, cycVars>>

\* lines 56-58 and 34-35, 17-22: the next command of the batch; execute()
\* calls connect(), which creates and connects a socket when there is none.
Execute ==
    /\ pc = "batch"
    /\ cmdIdx <= NumCommands
    /\ attempted' = Append(attempted, commands[cmdIdx])
    /\ wire' = "none"
    /\ IF ConnectNeeded(connection)
       THEN /\ connection' = "sock"
            /\ opens' = Inc(opens, MaxOpens)
            /\ handshakeOK' = FALSE
            /\ srvAuthed' = FALSE
            /\ inbuf' = << >>
            /\ IF srv = "up"
               THEN /\ sockState' = "open"
                    /\ \E g \in {AuthRequest, Banner} : pending' = << g >>
                    /\ pc' = "auth_request"
                    /\ UNCHANGED <<cmdIdx, results, batchRaised, cycleError>>
               ELSE /\ sockState' = "unconnected"
                    /\ pending' = << >>
                    /\ Raise("Connection refused")
       ELSE /\ pc' = "send"
            /\ UNCHANGED <<connection, opens, handshakeOK, srvAuthed, inbuf,
                           sockState, pending, cmdIdx, results, batchRaised,
                           cycleError>>
    /\ UNCHANGED <<srv, response, content_length, handshakes, tables, wroteQueue,
                   wroteAgent, emptyReads>>
    /\ UNCHANGED <<readerVars, parseVars, aggVars, slVars, cycVars>>

\* lines 23-25 and 31-32: the first recv of connect(), then the auth command.
ConnectAuthRequest ==
    /\ pc = "auth_request"
    /\ \/ /\ inbuf # << >>
          /\ \E k \in 1..Len(inbuf) :
               /\ inbuf' = SubSeq(inbuf, k + 1, Len(inbuf))
               /\ IF AuthRequest \in Range(SubSeq(inbuf, 1, k))
                  THEN \/ /\ sockState = "open"
                          /\ wire' = "auth"
                          /\ \E accept \in BOOLEAN :
                               /\ srvAuthed' = accept
                               /\ pending' = IF Len(pending) + Len(inbuf') < MaxInFlight
                                             THEN Append(pending,
                                                         IF accept THEN ReplyOK ELSE ReplyErr)
                                             ELSE pending
                          /\ pc' = "auth_reply"
                          /\ UNCHANGED <<cmdIdx, results, batchRaised, cycleError>>
                       \/ /\ sockState = "closed"
                          /\ wire' = "auth"
                          /\ pc' = "auth_reply"
                          /\ UNCHANGED <<srvAuthed, pending, cmdIdx, results,
                                         batchRaised, cycleError>>
                       \/ /\ sockState = "closed"
                          /\ wire' = "none"
                          /\ Raise("Broken pipe")
                          /\ UNCHANGED <<srvAuthed, pending>>
                  ELSE /\ wire' = "none"
                       /\ Raise("Failed to connect to FreeSWITCH")
                       /\ UNCHANGED <<srvAuthed, pending>>
       \/ /\ inbuf = << >>
          /\ sockState = "open"
          /\ wire' = "none"
          /\ Raise("timed out")
          /\ UNCHANGED <<inbuf, srvAuthed, pending>>
       \/ /\ inbuf = << >>
          /\ sockState = "closed"
          /\ wire' = "none"
          /\ Raise("Failed to connect to FreeSWITCH")
          /\ UNCHANGED <<inbuf, srvAuthed, pending>>
    /\ UNCHANGED <<connection, sockState, srv, response, content_length, handshakeOK,
                   opens, handshakes, attempted, tables, wroteQueue, wroteAgent,
                   emptyReads>>
    /\ UNCHANGED <<readerVars, parseVars, aggVars, slVars, cycVars>>

\* lines 26-30: the second recv of connect().
ConnectAuthReply ==
    /\ pc = "auth_reply"
    /\ wire' = "none"
    /\ \/ /\ inbuf # << >>
          /\ \E k \in 1..Len(inbuf) :
               /\ inbuf' = SubSeq(inbuf, k + 1, Len(inbuf))
               /\ IF ReplyOK \in Range(SubSeq(inbuf, 1, k))
                  THEN /\ handshakeOK' = TRUE
                       /\ handshakes' = Inc(handshakes, MaxOpens)
                       /\ pc' = "send"
                       /\ UNCHANGED <<cmdIdx, results, batchRaised, cycleError>>
                  ELSE /\ Raise("Failed to authenticate with FreeSWITCH")
                       /\ UNCHANGED <<handshakeOK, handshakes>>
       \/ /\ inbuf = << >>
          /\ sockState = "open"
          /\ Raise("timed out")
          /\ UNCHANGED <<inbuf, handshakeOK, handshakes>>
       \/ /\ inbuf = << >>
          /\ sockState = "closed"
          /\ Raise("Failed to authenticate with FreeSWITCH")
          /\ UNCHANGED <<inbuf, handshakeOK, handshakes>>
    /\ UNCHANGED <<connection, sockState, srv, srvAuthed, pending, response,
                   content_length, opens, attempted, tables, wroteQueue, wroteAgent,
                   emptyReads>>
    /\ UNCHANGED <<readerVars, parseVars, aggVars, slVars, cycVars>>

\* lines 36-37 and 41-42: send "api <command>" and enter _recv_response.
ExecuteSend ==
    /\ pc = "send"
    /\ \/ /\ sockState = "open"
          /\ wire' = "api"
          /\ pending' = IF HasRoom
                        THEN Append(pending, IF srvAuthed THEN ApiResponse(commands[cmdIdx])
                                                         ELSE ReplyErr)
                        ELSE pending
          /\ pc' = "recv"
          /\ UNCHANGED <<cmdIdx, results, batchRaised, cycleError>>
       \/ /\ sockState = "closed"
          /\ wire' = "api"
          /\ pc' = "recv"
          /\ UNCHANGED <<pending, cmdIdx, results, batchRaised, cycleError>>
       \/ /\ sockState \in {"closed", "unconnected"}
          /\ wire' = "none"
          /\ Raise("Broken pipe")
          /\ UNCHANGED pending
    /\ response' = << >>
    /\ content_length' = "None"
    /\ emptyReads' = 0
    /\ UNCHANGED <<connection, sockState, srv, srvAuthed, inbuf, handshakeOK, opens,
                   handshakes, attempted, tables, wroteQueue, wroteAgent>>
    /\ UNCHANGED <<readerVars, parseVars, aggVars, slVars, cycVars>>

\* lines 43-52: one turn of the loop of _recv_response. With whole frames on
\* the socket, the part after the first blank line is long enough as soon as
\* a frame with a Content-Length has been read.
RecvResponse ==
    /\ pc = "recv"
    /\ wire' = "none"
    /\ \/ /\ inbuf # << >>
          /\ \E k \in 1..Len(inbuf) :
               LET resp == response \o SubSeq(inbuf, 1, k)
                   cl == IF content_length = "None"
                            /\ \E f \in Range(resp) : HasContentLength(f)
                         THEN "set" ELSE content_length
               IN  /\ inbuf' = SubSeq(inbuf, k + 1, Len(inbuf))
                   /\ emptyReads' = 0
                   /\ IF cl = "set"
                      THEN /\ Return(Resp(resp))
                           /\ response' = << >>
                           /\ content_length' = "None"
                      ELSE /\ response' = resp
                           /\ content_length' = cl
                           /\ UNCHANGED <<pc, cmdIdx, results, batchRaised, cycleError>>
       \/ /\ inbuf = << >>
          /\ sockState = "open"
          /\ Raise("timed out")
          /\ response' = << >>
          /\ content_length' = "None"
          /\ UNCHANGED <<inbuf, emptyReads>>
       \/ /\ inbuf = << >>
          /\ sockState = "closed"
          /\ emptyReads' = Inc(emptyReads, MaxEmptyReads)
          /\ UNCHANGED <<inbuf, response, content_length, pc, cmdIdx, results,
                         batchRaised, cycleError>>
    /\ UNCHANGED <<connection, sockState, srv, srvAuthed, pending, handshakeOK, opens,
                   handshakes, attempted, tables, wroteQueue, wroteAgent>>
    /\ UNCHANGED <<readerVars, parseVars, aggVars, slVars, cycVars>>

\* line 61: the batch returns its results.
BatchReturn ==
    /\ pc = "batch"
    /\ cmdIdx > NumCommands
    /\ pc' = "parse"
    /\ UNCHANGED <<connection, sockState, srv, srvAuthed, pending, inbuf, cmdIdx,
                   results, response, content_length, wire, handshakeOK, opens,
                   handshakes, attempted, batchRaised, tables, wroteQueue, wroteAgent,
                   cycleError, emptyReads>>
    /\ UNCHANGED <<readerVars, parseVars, aggVars, slVars, cycVars>>

\* parse_response fails on a value with no blank line (64-67): every str(e)
\* the batch stores is such a value.
ParseFails(res) ==
    \E c \in Range(commands) : c \notin DOMAIN res \/ res[c].kind = "error"

\* lines 96-194: parse the three responses, drop the total rows, run the
\* queue pass and set Realtime_Queue_Metrics_data.
ParseAndQueuePass ==
    /\ pc = "parse"
    /\ IF ParseFails(results)
       THEN /\ CycleExcept("Invalid response format")
            /\ UNCHANGED <<tables, wroteQueue>>
       ELSE \E t \in TableKinds :
              /\ tables' = t
              /\ IF QueuePassRaises(t)
                 THEN /\ CycleExcept("invalid literal for int()")
                      /\ UNCHANGED wroteQueue
                 ELSE \/ /\ wroteQueue' = TRUE
                         /\ pc' = "agents"
                         /\ UNCHANGED cycleError
                      \/ /\ CycleExcept("Error connecting to redis")
                         /\ UNCHANGED wroteQueue
    /\ UNCHANGED <<connection, sockState, srv, srvAuthed, pending, inbuf, cmdIdx,
                   results, response, content_length, wire, handshakeOK, opens,
                   handshakes, attempted, batchRaised, wroteAgent, emptyReads>>
    /\ UNCHANGED <<readerVars, parseVars, aggVars, slVars, cycVars>>

\* lines 197-253: build the agent metrics and set Realtime_Agent_Metrics_data.
AgentPass ==
    /\ pc = "agents"
    /\ IF AgentPassRaises(tables)
       THEN /\ CycleExcept("invalid literal for int()")
            /\ UNCHANGED wroteAgent
       ELSE \/ /\ wroteAgent' = TRUE
               /\ pc' = "sleep"
               /\ cycleError' = ""
            \/ /\ CycleExcept("Error connecting to redis")
               /\ UNCHANGED wroteAgent
    /\ UNCHANGED <<connection, sockState, srv, srvAuthed, pending, inbuf, cmdIdx,
                   results, response, content_length, wire, handshakeOK, opens,
                   handshakes, attempted, batchRaised, tables, wroteQueue, emptyReads>>
    /\ UNCHANGED <<readerVars, parseVars, aggVars, slVars, cycVars>>

\* lines 281-282 and 278: the fixed sleep, then the top of the loop.
Sleep ==
    /\ pc = "sleep"
    /\ pc' = "loop"
    /\ UNCHANGED <<connection, sockState, srv, srvAuthed, pending, inbuf, cmdIdx,
                   results, response, content_length, wire, handshakeOK, opens,
                   handshakes, attempted, batchRaised, tables, wroteQueue, wroteAgent,
                   cycleError, emptyReads>>
    /\ UNCHANGED <<readerVars, parseVars, aggVars, slVars, cycVars>>

\* ------------------------------------------------------ the switch
\* The switch sends the next frame it owes.
Deliver ==
    /\ pending # << >>
    /\ sockState = "open"
    /\ inbuf' = Append(inbuf, Head(pending))
    /\ pending' = Tail(pending)
    /\ UNCHANGED <<connection, sockState, srv, srvAuthed, pc, cmdIdx, results, response,
                   content_length, wire, handshakeOK, opens, handshakes, attempted,
                   batchRaised, tables, wroteQueue, wroteAgent, cycleError, emptyReads>>
    /\ UNCHANGED <<readerVars, parseVars, aggVars, slVars, cycVars>>

\* The switch stops: an open connection is closed by the peer.
SwitchStop ==
    /\ srv = "up"
    /\ srv' = "down"
    /\ sockState' = IF sockState = "open" THEN "closed" ELSE sockState
    /\ pending' = << >>
    /\ UNCHANGED <<connection, srvAuthed, inbuf, pc, cmdIdx, results, response,
                   content_length, wire, handshakeOK, opens, handshakes, attempted,
                   batchRaised, tables, wroteQueue, wroteAgent, cycleError, emptyReads>>
    /\ UNCHANGED <<readerVars, parseVars, aggVars, slVars, cycVars>>

\* The switch is reachable again.
SwitchStart ==
    /\ srv = "down"
    /\ srv' = "up"
    /\ UNCHANGED <<connection, sockState, srvAuthed, pending, inbuf, pc, cmdIdx, results,
                   response, content_length, wire, handshakeOK, opens, handshakes,
                   attempted, batchRaised, tables, wroteQueue, wroteAgent, cycleError,
                   emptyReads>>
    /\ UNCHANGED <<readerVars, parseVars, aggVars, slVars, cycVars>>

Init == InitClient /\ IdleReader /\ IdleParse /\ IdleAgg /\ IdleSL /\ IdleCyc

Next ==
    \/ StartCycle
    \/ Execute
    \/ ConnectAuthRequest
    \/ ConnectAuthReply
    \/ ExecuteSend
    \/ RecvResponse
    \/ BatchReturn
    \/ ParseAndQueuePass
    \/ AgentPass
    \/ Sleep
    \/ Deliver
    \/ SwitchStop
    \/ SwitchStart

Spec == Init /\ [][Next]_vars

\* ------------------------------------------- _recv_response, by characters
\* The text is a sequence of characters. "CL" stands for the sixteen
\* characters of "Content-Length: ", "NL" for a line feed, "h" for a
\* character of another header line, "x" for a character of a body; the
\* digits stand for themselves. The text is ASCII, so that decode() maps
\* bytes to characters one to one.
DigitChars == << "0", "1", "2", "3", "4", "5", "6", "7", "8", "9" >>
IsDigit(t) == t \in Range(DigitChars)
DigitValue(t) == (CHOOSE i \in DOMAIN DigitChars : DigitChars[i] = t) - 1

\* len() of a text.
RECURSIVE TextLen(_)
TextLen(s) ==
    IF s = << >> THEN 0
    ELSE (IF Head(s) = "CL" THEN 16 ELSE 1) + TextLen(Tail(s))

\* int() of a run of digits.
RECURSIVE IntOf(_)
IntOf(ds) ==
    IF ds = << >> THEN 0
    ELSE IntOf(SubSeq(ds, 1, Len(ds) - 1)) * 10 + DigitValue(ds[Len(ds)])

\* line 47: re.search(r"Content-Length: (\d+)", response): the leftmost
\* match, with the longest run of digits; -1 when there is none.
ContentLengthMatch(resp) ==
    LET starts == { i \in 1..(Len(resp) - 1) : resp[i] = "CL" /\ IsDigit(resp[i + 1]) }
    IN  IF starts = {} THEN -1
        ELSE LET i == CHOOSE a \in starts : \A b \in starts : a <= b
                 ends == { j \in (i + 1)..Len(resp) :
                             \A k \in (i + 1)..j : IsDigit(resp[k]) }
                 j == CHOOSE a \in ends : \A b \in ends : a >= b
             IN  IntOf(SubSeq(resp, i + 1, j))

\* response.split("\n\n", 1): where the first blank line starts (0: nowhere).
SeparatorAt(resp) ==
    LET at == { i \in 1..(Len(resp) - 1) : resp[i] = "NL" /\ resp[i + 1] = "NL" }
    IN  IF at = {} THEN 0 ELSE CHOOSE a \in at : \A b \in at : a <= b

\* response.split("\n\n", 1)[1], where there is a blank line.
AfterSeparator(resp) == SubSeq(resp, SeparatorAt(resp) + 2, Len(resp))

\* lines 46-51, after response += part: the new content_length and what the
\* loop does next. 0 is falsy, so a Content-Length of 0 never ends the loop,
\* and the split is evaluated only for a truthy content_length.
ReaderTurn(resp, cl) ==
    LET newcl == IF cl = -1 THEN ContentLengthMatch(resp) ELSE cl
    IN  [cl |-> newcl,
         next |-> IF newcl > 0
                  THEN IF SeparatorAt(resp) = 0 THEN "IndexError"
                       ELSE IF TextLen(AfterSeparator(resp)) >= newcl THEN "returned"
                       ELSE "recv"
                  ELSE "recv"]

\* line 44: recv(1024) returns at most this many bytes.
RecvSize == 1024

Digits(n) ==
    IF n < 10 THEN << DigitChars[n + 1] >>
    ELSE << DigitChars[(n \div 10) + 1], DigitChars[(n % 10) + 1] >>

\* "Content-Type: ...\nContent-Length: n\n\n" and n characters of body.
Frame(n) ==
    << "h", "NL", "CL" >> \o Digits(n) \o << "NL", "NL" >> \o [i \in 1..n |-> "x"]

\* A frame with no Content-Length, such as a command/reply.
HeaderOnly == << "h", "NL", "NL" >>

InitReader ==
    /\ \/ /\ rn \in 0..MaxBody
          /\ \E tail \in { << >>, HeaderOnly, Frame(1) } : rstream = Frame(rn) \o tail
       \/ /\ rn = -1
          /\ rstream \in { << >>, HeaderOnly, HeaderOnly \o HeaderOnly }
    /\ rpeer \in {"silent", "closed"}
    /\ rresponse = << >>
    /\ rcl = -1
    /\ rpc = "recv"

\* lines 44-45: recv returns bytes, which are appended to response.
ReaderData ==
    /\ rpc = "recv"
    /\ rstream # << >>
    /\ \E k \in 1..Len(rstream) :
         /\ TextLen(SubSeq(rstream, 1, k)) <= RecvSize
         /\ rresponse' = rresponse \o SubSeq(rstream, 1, k)
         /\ rstream' = SubSeq(rstream, k + 1, Len(rstream))
    /\ rpc' = "check"
    /\ UNCHANGED <<rpeer, rn, rcl>>
    /\ UNCHANGED <<clientVars, parseVars, aggVars, slVars, cycVars>>

\* line 44 with settimeout(30) (line 21): nothing arrives, recv raises.
ReaderTimeout ==
    /\ rpc = "recv"
    /\ rstream = << >>
    /\ rpeer = "silent"
    /\ rpc' = "timeout"
    /\ UNCHANGED <<rstream, rpeer, rresponse, rcl, rn>>
    /\ UNCHANGED <<clientVars, parseVars, aggVars, slVars, cycVars>>

\* lines 44-45: the peer has closed, recv returns no bytes at once.
ReaderEOF ==
    /\ rpc = "recv"
    /\ rstream = << >>
    /\ rpeer = "closed"
    /\ rpc' = "check"
    /\ UNCHANGED <<rstream, rpeer, rresponse, rcl, rn>>
    /\ UNCHANGED <<clientVars, parseVars, aggVars, slVars, cycVars>>

\* lines 46-51: look for the Content-Length, then break or loop.
ReaderCheck ==
    /\ rpc = "check"
    /\ rcl' = ReaderTurn(rresponse, rcl).cl
    /\ rpc' = ReaderTurn(rresponse, rcl).next
    /\ UNCHANGED <<rstream, rpeer, rresponse, rn>>
    /\ UNCHANGED <<clientVars, parseVars, aggVars, slVars, cycVars>>

NextReader == ReaderData \/ ReaderTimeout \/ ReaderEOF \/ ReaderCheck

InitSpecReader == InitReader /\ IdleClient /\ IdleParse /\ IdleAgg /\ IdleSL /\ IdleCyc

SpecReader == InitSpecReader /\ [][NextReader]_vars

\* recv returns within its timeout, so the loop keeps taking turns.
FairSpecReader == SpecReader /\ WF_vars(NextReader)

\* ------------------------------------------- parse_response and the pop
\* The text of a table body: a cell value is one token ("" is no token),
\* "BAR" is the delimiter '|', "NL" a line feed.

\* The pieces of s between the occurrences of sep, as str.split(sep) and
\* the csv reader's split of a line at the delimiter give them.
RECURSIVE SplitOn(_, _)
SplitOn(s, sep) ==
    LET at == { i \in 1..Len(s) : s[i] = sep }
    IN  IF at = {} THEN << s >>
        ELSE LET i == CHOOSE a \in at : \A b \in at : a <= b
             IN  << SubSeq(s, 1, i - 1) >> \o SplitOn(SubSeq(s, i + 1, Len(s)), sep)

\* line 65: str.strip() removes the white space at both ends; the only
\* white space of the text is the line feed.
RECURSIVE Strip(_)
Strip(s) ==
    IF s = << >> THEN s
    ELSE IF Head(s) = "NL" THEN Strip(Tail(s))
    ELSE IF s[Len(s)] = "NL" THEN Strip(SubSeq(s, 1, Len(s) - 1))
    ELSE s

\* The csv reader: the fields of one line; an empty line has no fields.
Fields(line) ==
    IF line = << >> THEN << >>
    ELSE LET parts == SplitOn(line, "BAR")
         IN  [i \in 1..Len(parts) |-> IF parts[i] = << >> THEN "" ELSE parts[i][1]]

RECURSIVE NonBlank(_)
NonBlank(rows) ==
    IF rows = << >> THEN << >>
    ELSE IF Head(rows) = << >> THEN NonBlank(Tail(rows))
    ELSE << Head(rows) >> \o NonBlank(Tail(rows))

\* csv.DictReader: one row as a dict, its items <<key, value>> in the order
\* of the field names. A value is << v >> for the string v and << >> for
\* None: a short row is filled with None, the fields beyond the names go
\* under the key None.
DictRow(names, row) ==
    [i \in 1..Len(names) |->
        << names[i], IF i <= Len(row) THEN << row[i] >> ELSE << >> >>]
    \o (IF Len(row) > Len(names)
        THEN << << "None", SubSeq(row, Len(names) + 1, Len(row)) >> >>
        ELSE << >>)

\* lines 68-69: csv.DictReader(StringIO(data), delimiter='|'): blank lines
\* are skipped, the first row left gives the field names.
DictReader(data) ==
    LET rows == NonBlank([i \in 1..Len(SplitOn(data, "NL")) |->
                              Fields(SplitOn(data, "NL")[i])])
    IN  IF rows = << >> THEN << >>
        ELSE [i \in 1..(Len(rows) - 1) |-> DictRow(rows[1], rows[i + 1])]

\* lines 101-103: list.pop() removes the last record.
DropFirst(rows) == Tail(rows)
DropLast(rows) == SubSeq(rows, 1, Len(rows) - 1)

\* The columns of the tier table the program reads (lines 138, 150, 205).
TierColumns == << "queue", "agent", "level", "position" >>
Cells == { "", "a" }

\* The total row that ends each list.
TotalRow == << "+OK" >>

RECURSIVE Join(_, _)
Join(parts, sep) ==
    IF parts = << >> THEN << >>
    ELSE IF Len(parts) = 1 THEN parts[1]
    ELSE parts[1] \o << sep >> \o Join(Tail(parts), sep)

\* One row as text.
RowText(row) == Join([i \in 1..Len(row) |-> IF row[i] = "" THEN << >> ELSE << row[i] >>], "BAR")

\* A frame whose body is the header row, the data rows and the total row.
TableResponse(rows) ==
    << "h", "NL", "NL" >>
    \o Join(<< RowText(TierColumns) >>
            \o [i \in 1..Len(rows) |-> RowText(rows[i])]
            \o << RowText(TotalRow) >>, "NL")
    \o << "NL" >>

TableRows == [1..Len(TierColumns) -> Cells]

InitParse ==
    /\ \E n \in 0..MaxRows : ptable \in [1..n -> TableRows]
    /\ ptext = TableResponse(ptable)
    /\ precords = << >>
    /\ ppc = "start"

InitSpecParse == InitParse /\ IdleClient /\ IdleReader /\ IdleAgg /\ IdleSL /\ IdleCyc

\* lines 63-69: parse_response.
ParseResponse ==
    /\ ppc = "start"
    /\ IF SeparatorAt(ptext) = 0
       THEN /\ ppc' = "ValueError"
            /\ UNCHANGED precords
       ELSE /\ ppc' = "parsed"
            /\ precords' = DictReader(Strip(AfterSeparator(ptext)))
    /\ UNCHANGED <<ptable, ptext>>
    /\ UNCHANGED <<clientVars, readerVars, aggVars, slVars, cycVars>>

\* lines 101-103: the pop of the last record; pop from an empty list raises.
PopTotal ==
    /\ ppc = "parsed"
    /\ IF precords = << >>
       THEN /\ ppc' = "IndexError"
            /\ UNCHANGED precords
       ELSE /\ ppc' = "popped"
            /\ precords' = DropLast(precords)
    /\ UNCHANGED <<ptable, ptext>>
    /\ UNCHANGED <<clientVars, readerVars, aggVars, slVars, cycVars>>

NextParse == ParseResponse \/ PopTotal

SpecParse == InitSpecParse /\ [][NextParse]_vars

\* =================================================================
\* The two passes of execute_and_process_commands (lines 109-253)
\* =================================================================

\* ---- values
\* A cell of a parsed record: a string of decimal digits, any other string
\* (the empty one included), None (csv.DictReader's value for a column the
\* row is too short to reach), or no such key (the table has no such column).
Num(n) == [k |-> "digits", n |-> n]
Text == [k |-> "text", n |-> 0]
NoneCell == [k |-> "None", n |-> 0]
Missing == [k |-> "missing", n |-> 0]

\* A value of a published entry that is a number, a rendered duration
\* "HH:MM:SS" or the string "-".
Number(n) == [kind |-> "number", h |-> 0, m |-> 0, s |-> n]
Dash == [kind |-> "-", h |-> 0, m |-> 0, s |-> 0]

\* A number of seconds n/d (an int, or the float of a division), d > 0.
Rat(n, d) == [n |-> n, d |-> d]
Whole(n) == Rat(n, 1)

\* lines 75-79: // and % floor, int() drops the fraction of a value >= 0;
\* {:02} pads to two digits and keeps longer numbers and the sign.
convert_seconds_to_hhmmss(seconds) ==
    LET hours   == seconds.n \div (3600 * seconds.d)
        minutes == (seconds.n % (3600 * seconds.d)) \div (60 * seconds.d)
        secs    == (seconds.n % (60 * seconds.d)) \div seconds.d
    IN  [kind |-> "HH:MM:SS", h |-> hours, m |-> minutes, s |-> secs]

\* round(num / den, 2), in hundredths, for num >= 0 and den > 0: the nearest
\* hundredth; a quotient half way between two hundredths is a multiple of
\* 1/8 here (den < 96), which the float holds exactly, and round() then
\* takes the even hundredth.
Round2(num, den) ==
    LET q == (num * 100) \div den
        r == (num * 100) % den
    IN  IF 2 * r > den THEN q + 1
        ELSE IF 2 * r < den THEN q
        ELSE IF q % 2 = 0 THEN q ELSE q + 1

\* lines 141-145, in hundredths of a percent.
SL60OfAbandoned(Handled, Abandoned) ==
    LET total_calls == Handled + Abandoned
    IN  IF total_calls > 0 THEN Round2(Abandoned * 100, total_calls) ELSE 0
SL60(Handled, Abandoned) ==
    LET total_calls == Handled + Abandoned
    IN  IF total_calls > 0 THEN Round2(Handled * 100, total_calls) ELSE 0

\* ---- the service level alone (SpecSL)
MaxCalls == 40       \* most calls answered, and most abandoned, of a queue

InitSL ==
    /\ slHandled \in 0..MaxCalls
    /\ slAbandoned \in 0..MaxCalls
    /\ slOut = 0
    /\ slpc = "start"

InitSpecSL == InitSL /\ IdleClient /\ IdleReader /\ IdleParse /\ IdleAgg /\ IdleCyc

\* lines 141-145 for one queue.
ServiceLevel ==
    /\ slpc = "start"
    /\ slOut' = SL60(slHandled, slAbandoned)
    /\ slpc' = "done"
    /\ UNCHANGED <<slHandled, slAbandoned>>
    /\ UNCHANGED <<clientVars, readerVars, parseVars, aggVars, cycVars>>

NextSL == ServiceLevel

SpecSL == InitSpecSL /\ [][NextSL]_vars

\* ---- the queue pass (lines 109-194)
\* lines 113-128: the entry the defaultdict makes for a queue.
DefaultEntry ==
    [Name |-> "", Online |-> 0, InaQueueCall |-> 0, OnBreak |-> 0, ACW |-> 0,
     LoggedOut |-> 0, Available |-> 0, Idle |-> 0, Waiting |-> 0,
     Receiving |-> 0, Handled |-> 0, Abandoned |-> 0, AHT |-> Number(0),
     SL60 |-> 0]

\* "1 if ... else 0"
BumpTwice(b) == IF b THEN 2 ELSE 0
Bump(b) == IF b THEN 1 ELSE 0

\* line 151: next((agent for agent in agents if agent["name"] == agent_name),
\* None): the index of the first record of that name, 0 for None.
RECURSIVE FirstNamed(_, _, _)
FirstNamed(ags, agent_name, i) ==
    IF i > Len(ags) THEN 0
    ELSE IF ags[i].name = agent_name THEN i
    ELSE FirstNamed(ags, agent_name, i + 1)

\* line 152: if agent
Resolved(ags, agent_name) == FirstNamed(ags, agent_name, 1) # 0

\* line 152, agent is None: the loop goes on to the next tier row.
SkipCounted(acc) == [acc EXCEPT !.entry.Online = @ + 1]
Skip(acc) == acc

\* lines 153-164: the counters of one resolved tier row.
CountAgentOnline(entry, queue_name, agent) ==
    [entry EXCEPT !.Name = queue_name, !.Online = @ + 1]
CountAgent(entry, queue_name, agent) ==
    LET status == agent.status
        state  == agent.state
    IN  [entry EXCEPT
           !.Name = queue_name,
           !.Online = @ + Bump(status # "Logged Out"),
           !.InaQueueCall = @ + Bump(state = "In a queue call"),
           !.OnBreak = @ + Bump(status = "On Break"),
           !.ACW = @ + Bump(status = "Available (On Demand)"),
           !.LoggedOut = @ + Bump(status = "Logged Out"),
           !.Available = @ + Bump(status = "Available"
                                  /\ state # "In a queue call"
                                  /\ state # "Receiving"),
           !.Idle = @ + Bump(state = "Idle"),
           !.Waiting = @ + Bump(state = "Waiting" /\ status = "Available"),
           !.Receiving = @ + Bump(state = "Receiving")]

\* int(record[key]): the exception it raises, "" for none.
IntRaises(cell) ==
    CASE cell.k = "digits"  -> ""
      [] cell.k = "text"    -> "ValueError"
      [] cell.k = "missing" -> "KeyError"
      [] cell.k = "None"    -> "TypeError"

\* lines 167-173: the first of the two int() calls that raises decides;
\* ValueError and KeyError are passed over, anything else leaves the pass.
BridgeRaises(agent) ==
    IF IntRaises(agent.last_bridge_start) # ""
    THEN IntRaises(agent.last_bridge_start)
    ELSE IntRaises(agent.last_bridge_end)

BridgeCaught(e) == e \in {"ValueError", "KeyError"}

\* lines 149-173 for the tier rows from the i-th on; acc is the entry of the
\* queue, aht_agent_count and the exception that left the loop ("" for none).
RECURSIVE TierLoop(_, _, _, _, _)
TierLoop(acc, queue_tiers, i, ags, queue_name) ==
    IF i > Len(queue_tiers) \/ acc.raised # "" THEN acc
    ELSE
      LET agent_name == queue_tiers[i].agent
          k == FirstNamed(ags, agent_name, 1)
      IN  IF ~Resolved(ags, agent_name)
          THEN TierLoop(Skip(acc), queue_tiers, i + 1, ags, queue_name)
          ELSE
            LET agent   == ags[k]
                counted == CountAgent(acc.entry, queue_name, agent)
                e       == BridgeRaises(agent)
                step ==
                  IF e = ""
                  THEN [entry |-> [counted EXCEPT !.AHT =
                                     Number(@.s + (agent.last_bridge_end.n
                                                   - agent.last_bridge_start.n))],
                        aht_agent_count |-> acc.aht_agent_count + 1,
                        raised |-> ""]
                  ELSE [entry |-> counted,
                        aht_agent_count |-> acc.aht_agent_count,
                        raised |-> IF BridgeCaught(e) THEN "" ELSE e]
            IN  TierLoop(step, queue_tiers, i + 1, ags, queue_name)

\* line 148
SelectTiers(trs, queue_name) == SelectSeq(trs, LAMBDA tier : tier.queue = queue_name)

\* line 184: aht_agent_count after a queue with tier rows.
CountKept(aht_agent_count) == aht_agent_count
CountReset(aht_agent_count) == 0

\* lines 134-184 for the queue-table rows from the i-th on; acc is
\* combined_data_list, aht_agent_count and the exception raised.
RECURSIVE QueueLoop(_, _, _, _, _)
QueueLoop(acc, qs, i, trs, ags) ==
    IF i > Len(qs) \/ acc.raised # "" THEN acc
    ELSE
      LET queue == qs[i]
          queue_name == queue.name
          queue_tiers == SelectTiers(trs, queue_name)
      IN  IF queue_tiers = << >>
          THEN QueueLoop(acc, qs, i + 1, trs, ags)
          ELSE IF IntRaises(queue.calls_answered) # ""
          THEN [acc EXCEPT !.raised = IntRaises(queue.calls_answered)]
          ELSE IF IntRaises(queue.calls_abandoned) # ""
          THEN [acc EXCEPT !.raised = IntRaises(queue.calls_abandoned)]
          ELSE
            LET first == [DefaultEntry EXCEPT
                            !.Handled = queue.calls_answered.n,
                            !.Abandoned = queue.calls_abandoned.n,
                            !.SL60 = SL60(queue.calls_answered.n,
                                          queue.calls_abandoned.n)]
                t == TierLoop([entry |-> first,
                               aht_agent_count |-> acc.aht_agent_count,
                               raised |-> ""],
                              queue_tiers, 1, ags, queue_name)
                entry ==
                  IF t.aht_agent_count > 0
                  THEN [t.entry EXCEPT !.AHT =
                          convert_seconds_to_hhmmss(Rat(@.s, t.aht_agent_count))]
                  ELSE t.entry
            IN  IF t.raised # ""
                THEN [acc EXCEPT !.raised = t.raised]
                ELSE QueueLoop([list |-> Append(acc.list, entry),
                                aht_agent_count |-> CountReset(t.aht_agent_count),
                                raised |-> ""],
                               qs, i + 1, trs, ags)

\* lines 110-131 and the loop.
combined_data_list(qs, trs, ags) ==
    QueueLoop([list |-> << >>, aht_agent_count |-> 0, raised |-> ""],
              qs, 1, trs, ags)

\* ---- the agent pass (lines 197-253)
\* int(agent.get(key, 0)): a key that is not there gives the default 0, a
\* key that is there gives its value, None included.
GetRaises(cell) == IF cell.k = "missing" THEN "" ELSE IntRaises(cell)
GetInt(cell) == IF cell.k = "missing" THEN 0 ELSE cell.n

\* lines 199-203: the first of the four conversions that raises.
RECURSIVE FirstRaised(_)
FirstRaised(cells) ==
    IF cells = << >> THEN ""
    ELSE IF GetRaises(Head(cells)) # "" THEN GetRaises(Head(cells))
    ELSE FirstRaised(Tail(cells))

ConversionsRaise(agent) ==
    FirstRaised(<< agent.last_bridge_start, agent.last_bridge_end,
                   agent.last_offered_call, agent.last_status_change >>)

\* lines 84-87, with time.time() read as `clock`.
calculate_duration_since_last_status_change(last_status_change_epoch, clock) ==
    convert_seconds_to_hhmmss(Whole(clock - last_status_change_epoch))

\* line 242
LCHTAlways(agent) ==
    convert_seconds_to_hhmmss(Whole(GetInt(agent.last_bridge_end)
                                    - GetInt(agent.last_bridge_start)))
LCHT(agent) ==
    IF agent.state # "In a queue call"
    THEN convert_seconds_to_hhmmss(Whole(GetInt(agent.last_bridge_end)
                                         - GetInt(agent.last_bridge_start)))
    ELSE Dash

\* lines 230-235: the rules are tested in this order.
DurationByStatusFirst(agent, currenttimestamp_in_epoc, clock) ==
    IF agent.status = "Available (On Demand)"
    THEN calculate_duration_since_last_status_change(
             GetInt(agent.last_status_change), clock)
    ELSE IF agent.state = "Receiving"
    THEN convert_seconds_to_hhmmss(
             Whole(currenttimestamp_in_epoc - GetInt(agent.last_offered_call)))
    ELSE IF agent.state = "In a queue call"
    THEN convert_seconds_to_hhmmss(
             Whole(currenttimestamp_in_epoc - GetInt(agent.last_bridge_start)))
    ELSE Dash
Contact_state_Duration(agent, currenttimestamp_in_epoc, clock) ==
    IF agent.state = "Receiving"
    THEN convert_seconds_to_hhmmss(
             Whole(currenttimestamp_in_epoc - GetInt(agent.last_offered_call)))
    ELSE IF agent.state = "In a queue call"
    THEN convert_seconds_to_hhmmss(
             Whole(currenttimestamp_in_epoc - GetInt(agent.last_bridge_start)))
    ELSE IF agent.status = "Available (On Demand)"
    THEN calculate_duration_since_last_status_change(
             GetInt(agent.last_status_change), clock)
    ELSE Dash

\* lines 209-245, for an agent whose four conversions succeeded and whose
\* record has the key last_status_change; Type, Agent_non_response and
\* Calls_handled copy columns that are not modelled.
AgentMetrics(agent, trs, currenttimestamp_in_epoc, clock) ==
    LET last_status_change_epoch == GetInt(agent.last_status_change)
        mine == SelectSeq(trs, LAMBDA tier : tier.agent = agent.name)
        since == calculate_duration_since_last_status_change(
                     last_status_change_epoch, clock)
    IN  [Name |-> agent.name,
         Status |-> agent.status,
         Statusduration |->
             IF agent.last_status_change # Num(0) THEN since ELSE Number(0),
         Capacity |-> 1,
         Availability |-> Bump(agent.status = "Available"),
         contact_state |->
             IF agent.state = "In a queue call" THEN "In a queue call"
             ELSE IF agent.state = "Receiving" THEN "Receiving"
             ELSE IF agent.status = "Available (On Demand)"
                  THEN "Available (On Demand)"
             ELSE "-",
         Contact_state_Duration |->
             Contact_state_Duration(agent, currenttimestamp_in_epoc, clock),
         Queue |-> [j \in 1..Len(mine) |-> mine[j].queue],
         ACW |-> IF agent.status = "Available (On Demand)" THEN since ELSE Dash,
         LCHT |-> LCHT(agent),
         Level |-> [j \in 1..Len(mine) |-> mine[j].level],
         Position |-> [j \in 1..Len(mine) |-> mine[j].position]]

\* line 208: if agent_queues
HasQueuesAlways(agent, trs) == TRUE
HasQueues(agent, trs) == \E j \in 1..Len(trs) : trs[j].agent = agent.name

\* lines 198-246 for the agent records from the i-th on; acc is
\* agent_metrics_list and the exception raised.
RECURSIVE AgentLoop(_, _, _, _, _, _)
AgentLoop(acc, ags, i, trs, currenttimestamp_in_epoc, clock) ==
    IF i > Len(ags) \/ acc.raised # "" THEN acc
    ELSE
      LET agent == ags[i]
      IN  IF ConversionsRaise(agent) # ""
          THEN [acc EXCEPT !.raised = ConversionsRaise(agent)]
          ELSE IF ~HasQueues(agent, trs)
          THEN AgentLoop(acc, ags, i + 1, trs, currenttimestamp_in_epoc, clock)
          ELSE IF agent.last_status_change.k = "missing"
          THEN [acc EXCEPT !.raised = "KeyError"]
          ELSE AgentLoop([list |-> Append(acc.list,
                                     AgentMetrics(agent, trs,
                                                  currenttimestamp_in_epoc, clock)),
                          raised |-> ""],
                         ags, i + 1, trs, currenttimestamp_in_epoc, clock)

agent_metrics_list(ags, trs, currenttimestamp_in_epoc, clock) ==
    AgentLoop([list |-> << >>, raised |-> ""], ags, 1, trs,
              currenttimestamp_in_epoc, clock)

\* ---- the tables the passes are given (lines 105-107)
Statuses == {"Available", "Available (On Demand)", "On Break", "Logged Out"}
States == {"Waiting", "Idle", "In a queue call", "Receiving"}

MaxTiers == 2        \* most rows of the tier table

\* The clock when the cycle starts, and the timestamps of the agent records.
NowEpoch == 20

Agent(nm, st, sta, lbs, lbe, loc, lsc) ==
    [name |-> nm, status |-> st, state |-> sta,
     last_bridge_start |-> lbs, last_bridge_end |-> lbe,
     last_offered_call |-> loc, last_status_change |-> lsc]

Tier(q, a) == [queue |-> q, agent |-> a, level |-> "1", position |-> "1"]

Queue(nm, answered, abandoned) ==
    [name |-> nm, calls_answered |-> answered, calls_abandoned |-> abandoned]

\* Tier rows: two queues; carol is in no agent table.
TierRows == { Tier(q, a) : q \in {"Sales", "Support"}, a \in {"alice", "bob", "carol"} }

\* A tier row is one (queue, agent) pair of the switch: no row comes twice.
TierTables ==
    UNION { { t \in [1..n -> TierRows] :
                \A i, j \in 1..n : i # j => t[i] # t[j] } : n \in 0..MaxTiers }

\* Queue tables: names are unique in the switch; Billing has no tier row.
QueueTables ==
    { << Queue("Sales", Num(3), Num(1)) >>,
      << Queue("Sales", Num(3), Num(1)), Queue("Support", Num(0), Num(0)) >>,
      << Queue("Support", Num(0), Num(0)), Queue("Billing", Num(1), Num(0)),
         Queue("Sales", Num(3), Num(1)) >> }

\* Agent records of SpecAgg: alice in every status and state; a bridge pair
\* is numeric or, for an agent that never took a call here, not a number.
Alices ==
    { Agent("alice", st, sta, Num(2), Num(5), Num(1), Num(3)) :
          st \in Statuses, sta \in States }
    \cup { Agent("alice", "Available", "Idle", Text, Text, Num(0), Num(3)),
           Agent("alice", "Available", "Waiting", Num(2), Text, Num(0), Num(3)),
           \* a bridge that ended before it started, and one of over an hour
           Agent("alice", "On Break", "Idle", Num(7), Num(5), Num(1), Num(3)),
           Agent("alice", "Available (On Demand)", "Waiting", Num(5), Num(3670),
                 Num(1), Num(3)),
           \* rows cut short after last_bridge_end, and before last_bridge_start
           Agent("alice", "Available", "Waiting", Num(2), Num(5), NoneCell, NoneCell),
           Agent("alice", "Available", "Waiting", NoneCell, NoneCell, NoneCell, NoneCell) }

\* Agent tables without the bridge columns, and without last_status_change.
Columnless ==
    { << Agent("alice", "Available", "Idle", Missing, Missing, Num(1), Num(3)) >>,
      << Agent("alice", "Available", "Idle", Num(2), Num(5), Num(1), Missing) >> }

Bobs ==
    { Agent("bob", "Logged Out", sta, Num(1), Num(5), Num(1), Num(0)) :
          sta \in States }
    \cup { Agent("bob", "Logged Out", "Waiting", Text, Text, Num(0), Num(0)),
           Agent("bob", "On Break", "Waiting", Text, Text, Num(0), Num(4)),
           Agent("bob", "Available", "In a queue call", Num(7), Num(5), Num(6), Num(4)) }

AgentTables ==
    { << >> } \cup { << a >> : a \in Alices } \cup Columnless
    \cup { << a, b >> : a \in Alices, b \in Bobs }
    \cup { << b, a >> : a \in Alices, b \in Bobs }

InitAgg ==
    /\ agents \in AgentTables
    /\ tiers \in TierTables
    /\ queues \in QueueTables
    /\ now = NowEpoch
    /\ apc = "queues"
    /\ queue_metrics = NotSet
    /\ agent_metrics = NotSet

InitSpecAgg == InitAgg /\ IdleClient /\ IdleReader /\ IdleParse /\ IdleSL /\ IdleCyc

\* lines 109-194: the queue pass and the set of Realtime_Queue_Metrics_data,
\* or the exception that ends the cycle (256-257).
QueueMetricsPass ==
    /\ apc = "queues"
    /\ LET r == combined_data_list(queues, tiers, agents)
       IN  IF r.raised = ""
           THEN /\ queue_metrics' = [set |-> TRUE, list |-> r.list]
                /\ apc' = "agents"
           ELSE /\ apc' = r.raised
                /\ UNCHANGED queue_metrics
    /\ UNCHANGED <<agents, tiers, queues, now, agent_metrics>>
    /\ UNCHANGED <<clientVars, readerVars, parseVars, slVars, cycVars>>

\* lines 197-253: the agent pass and the set of Realtime_Agent_Metrics_data,
\* or the exception that ends the cycle; time.time() at line 85 is the
\* clock of the start of the cycle or a second later.
AgentMetricsPass ==
    /\ apc = "agents"
    /\ \E clock \in {now, now + 1} :
         LET r == agent_metrics_list(agents, tiers, now, clock)
         IN  IF r.raised = ""
             THEN /\ agent_metrics' = [set |-> TRUE, list |-> r.list]
                  /\ apc' = "done"
             ELSE /\ apc' = r.raised
                  /\ UNCHANGED agent_metrics
    /\ UNCHANGED <<agents, tiers, queues, now, queue_metrics>>
    /\ UNCHANGED <<clientVars, readerVars, parseVars, slVars, cycVars>>

NextAgg == QueueMetricsPass \/ AgentMetricsPass

SpecAgg == InitSpecAgg /\ [][NextAgg]_vars

\* ---- successive calls of execute_and_process_commands (SpecCycles)
MaxCycles == 3       \* calls made by the loop

\* line 282: time.sleep(20)
SleepSeconds == 20

\* lines 110 and 197: the list starts empty in every call.
KeptList(old) == old
NewList(old) == << >>

\* line 131: aht_agent_count starts at 0 in every call.
NewCount(old) == 0

\* What a call can fetch: both passes succeed (two agents in two queues; one
\* agent, with a tier row for carol, whom no table holds), the agent pass
\* raises (a bridge timestamp that is no number), the queue pass raises (a
\* row cut short).
CycleAgents ==
    { << Agent("alice", "Available", "Idle", Num(2), Num(5), Num(1), Num(3)),
         Agent("bob", "Logged Out", "Waiting", Num(1), Num(5), Num(1), Num(0)) >>,
      << Agent("alice", "On Break", "Waiting", Num(2), Num(5), Num(1), Num(3)) >>,
      << Agent("alice", "Available", "Idle", Text, Text, Num(0), Num(3)) >>,
      << Agent("alice", "Available", "Waiting", NoneCell, NoneCell, NoneCell,
               NoneCell) >> }

CycleTiers ==
    { << Tier("Sales", "alice"), Tier("Support", "bob") >>,
      << Tier("Sales", "alice"), Tier("Sales", "carol") >> }

CycleQueues ==
    { << Queue("Sales", Num(3), Num(1)), Queue("Support", Num(0), Num(0)) >> }

InitCycles ==
    /\ agents = << >>
    /\ tiers = << >>
    /\ queues = << >>
    /\ now = NowEpoch
    /\ apc = "fetch"
    /\ queue_metrics = NotSet
    /\ agent_metrics = NotSet
    /\ stale = NoLocals
    /\ published = NonePublished
    /\ history = << >>

InitSpecCycles == InitCycles /\ IdleClient /\ IdleReader /\ IdleParse /\ IdleSL

\* lines 92-107: the call fetches and parses the three tables.
CycleFetch ==
    /\ apc = "fetch"
    /\ agents' \in CycleAgents
    /\ tiers' \in CycleTiers
    /\ queues' \in CycleQueues
    /\ published' = NonePublished
    /\ apc' = "queues"
    /\ UNCHANGED <<now, queue_metrics, agent_metrics, stale, history>>
    /\ UNCHANGED <<clientVars, readerVars, parseVars, slVars>>

\* lines 109-194 in a call that follows other calls.
CycleQueuePass ==
    /\ apc = "queues"
    /\ LET r == QueueLoop([list |-> NewList(stale.combined_data_list),
                           aht_agent_count |-> NewCount(stale.aht_agent_count),
                           raised |-> ""],
                          queues, 1, tiers, agents)
       IN  /\ stale' = [stale EXCEPT !.combined_data_list = r.list,
                                     !.aht_agent_count = r.aht_agent_count]
           /\ IF r.raised = ""
              THEN /\ queue_metrics' = [set |-> TRUE, list |-> r.list]
                   /\ published' = [published EXCEPT
                                      !.queue = [set |-> TRUE, list |-> r.list]]
                   /\ apc' = "agents"
              ELSE /\ apc' = "sleep"
                   /\ UNCHANGED <<queue_metrics, published>>
    /\ UNCHANGED <<agents, tiers, queues, now, agent_metrics, history>>
    /\ UNCHANGED <<clientVars, readerVars, parseVars, slVars>>

\* lines 197-253 in a call that follows other calls.
CycleAgentPass ==
    /\ apc = "agents"
    /\ \E clock \in {now, now + 1} :
         LET r == AgentLoop([list |-> NewList(stale.agent_metrics_list),
                             raised |-> ""],
                            agents, 1, tiers, now, clock)
         IN  /\ stale' = [stale EXCEPT !.agent_metrics_list = r.list]
             /\ IF r.raised = ""
                THEN /\ agent_metrics' = [set |-> TRUE, list |-> r.list]
                     /\ published' = [published EXCEPT
                                        !.agent = [set |-> TRUE, list |-> r.list]]
                ELSE UNCHANGED <<agent_metrics, published>>
    /\ apc' = "sleep"
    /\ UNCHANGED <<agents, tiers, queues, now, queue_metrics, history>>
    /\ UNCHANGED <<clientVars, readerVars, parseVars, slVars>>

\* lines 278-282: the sleep, and the next turn of the loop.
CycleSleep ==
    /\ apc = "sleep"
    /\ Len(history) + 1 < MaxCycles
    /\ history' = Append(history, [agents |-> agents, tiers |-> tiers,
                                   queues |-> queues, published |-> published])
    /\ now' = now + SleepSeconds
    /\ apc' = "fetch"
    /\ UNCHANGED <<agents, tiers, queues, queue_metrics, agent_metrics, stale,
                   published>>
    /\ UNCHANGED <<clientVars, readerVars, parseVars, slVars>>

NextCycles == CycleFetch \/ CycleQueuePass \/ CycleAgentPass \/ CycleSleep

SpecCycles == InitSpecCycles /\ [][NextCycles]_vars

\* =================================================================
\* The claims
\* =================================================================

BatchOver == pc \in {"parse", "agents", "sleep"}

\* C1: execute_multiple_commands never raises; every command is attempted,
\* in the given order, whatever fails (connect error, send error, read
\* timeout), and when the batch has returned the mapping holds exactly one
\* entry per command, a response or an error value; while the batch runs,
\* the commands before the current one have their entry and the current one
\* is attempted next, also after a failure.
C1_BatchIsolatesFailures ==
    /\ ~batchRaised
    /\ pc # "loop" => attempted = SubSeq(commands, 1, Len(attempted))
    /\ pc = "batch" =>
          /\ Len(attempted) = cmdIdx - 1
          /\ DOMAIN results = { commands[i] : i \in 1..(cmdIdx - 1) }
    /\ BatchOver =>
          /\ attempted = commands
          /\ DOMAIN results = Range(commands)
    /\ \A c \in DOMAIN results :
          \/ results[c].kind = "response" /\ results[c].frames # << >>
          \/ results[c].kind = "error" /\ results[c].err # ""

\* C1 witness: a batch has returned with one error value, for the first
\* command, and two responses for the commands after it.
C1_Witness ==
    /\ pc = "parse"
    /\ DOMAIN results = Range(commands)
    /\ results[commands[1]].kind = "error"
    /\ results[commands[2]].kind = "response"
    /\ results[commands[3]].kind = "response"

\* C2 (as claimed): the frame _recv_response returns for a stream that
\* starts with a frame of Content-Length n has, after the first blank line,
\* exactly n characters, also when more bytes follow the frame.
C2_BodyExactlyContentLength ==
    (rpc = "returned" /\ rn >= 0) => TextLen(AfterSeparator(rresponse)) = rn

\* C3 (as claimed): on a stream on which no Content-Length header ever
\* appears (nothing at all, or header lines only, from a peer that then stays
\* silent or closes), _recv_response ends, by returning or by raising; it
\* never reads forever.
C3_ReaderTerminates == (rn = -1) => <>(rpc \notin {"recv", "check"})

\* C4 (as claimed): "api <command>" is written only on a connection whose
\* handshake succeeded (auth/request seen, then Reply-Text: +OK).
C4_ApiOnlyAfterHandshake == wire = "api" => handshakeOK

\* C5 (as claimed): after a send on a broken connection failed while Ready,
\* the client is Disconnected again (no connection object), so that the
\* next execute connects anew.
C5_SocketErrorDisconnects ==
    ( /\ pc = "batch"
      /\ cmdIdx > 1
      /\ commands[cmdIdx - 1] \in DOMAIN results
      /\ handshakeOK
      /\ results[commands[cmdIdx - 1]].kind = "error"
      /\ results[commands[cmdIdx - 1]].err = "Broken pipe" )
    => connection = "None"

\* C6 (as claimed): a cycle in which fetching, parsing or aggregating raised
\* (the building of the agent metrics included) wrote neither store key.
C6_NoPartialSnapshot ==
    (pc = "sleep" /\ cycleError \notin {"", "Error connecting to redis"})
    => (~wroteQueue /\ ~wroteAgent)

\* C7: no exception leaves execute_and_process_commands, whatever fails in
\* the cycle; a cycle ends (completed or failed) before the sleep, the sleep
\* is followed by the top of the loop, and a cycle starts only from there.
C7_LoopSurvives ==
    /\ [](pc # "crashed")
    /\ [][ /\ (pc' = "sleep" /\ pc # "sleep") => pc \in {"parse", "agents"}
           /\ (pc' = "loop" /\ pc # "loop") => pc = "sleep"
           /\ (pc = "sleep" /\ pc' # "sleep") => pc' = "loop"
           /\ (pc = "loop" /\ pc' # "loop") => (pc' = "batch" /\ cmdIdx' = 1)
           /\ (pc' = "batch" /\ pc \notin {"batch", "loop"}) => cmdIdx' = cmdIdx + 1
         ]_vars

\* C7 witness: a cycle failed and the next cycle is running.
C7_Witness == pc = "recv" /\ cycleError # ""

\* C8 (as claimed): the response stored under a command holds the reply the
\* switch sent to that command, never the reply to another command.
C8_OwnReply ==
    \A c \in DOMAIN results :
        results[c].kind = "response" =>
            \A f \in Range(results[c].frames) :
                f.type = "api/response" => f = ApiResponse(c)

\* C9: a connect() made while the client is Ready opens no socket, writes
\* nothing, reads nothing and leaves the connection as it is, so a client
\* that is Ready has opened one socket and made one handshake.
C9_ConnectIdempotent ==
    /\ [](handshakeOK => (opens = 1 /\ handshakes = 1))
    /\ [][ ( /\ pc = "batch"
             /\ cmdIdx <= NumCommands
             /\ handshakeOK
             /\ attempted' # attempted )
           => /\ pc' = "send"
              /\ wire' = "none"
              /\ UNCHANGED <<connection, sockState, inbuf, pending, opens,
                             handshakes, handshakeOK, srvAuthed>>
         ]_vars

\* C9 witness: a later command of a batch is about to be sent on a
\* connection whose handshake was made for an earlier command.
C9_Witness == pc = "send" /\ cmdIdx >= 2 /\ handshakeOK

\* The records the claim expects of a table: one per data row, in row
\* order, the column names mapped to the row's values in column order.
RecordsOf(rows) ==
    [i \in 1..Len(rows) |->
        [j \in 1..Len(TierColumns) |-> << TierColumns[j], << rows[i][j] >> >>]]

\* C10: for a body with the header row, N data rows and the total row,
\* parse_response and the pop raise nothing and leave exactly the N
\* records of the data rows, in row and column order.
C10_ParseDropsTotalRow ==
    /\ ppc \notin {"ValueError", "IndexError"}
    /\ ppc = "popped" => precords = RecordsOf(ptable)

\* C10 witness: two different data rows were parsed and the total row popped.
C10_Witness ==
    /\ ppc = "popped"
    /\ Len(ptable) = 2
    /\ ptable[1] # ptable[2]
    /\ Len(precords) = 2

\* C11: for all non-negative Handled and Abandoned, SL60 is 0 when
\* Handled + Abandoned is 0, and otherwise the hundredth nearest to
\* Handled * 100 / (Handled + Abandoned) (the even one when two are equally
\* near); it lies between 0 and 100.
C11_ServiceLevel ==
    slpc = "done" =>
        LET total == slHandled + slAbandoned
            off   == slOut * total - slHandled * 10000
        IN  /\ total = 0 => slOut = 0
            /\ total > 0 =>
                  /\ 2 * off <= total
                  /\ 2 * off >= -total
                  /\ (2 * off = total \/ 2 * off = -total) => slOut % 2 = 0
            /\ slOut >= 0
            /\ slOut <= 10000

\* C11 witness: 2 answered and 1 abandoned gave 66.67.
C11_Witness ==
    slpc = "done" /\ slHandled = 2 /\ slAbandoned = 1 /\ slOut = 6667

\* The queue-table rows that have a tier row, in table order.
Served == SelectSeq(queues, LAMBDA queue : \E j \in 1..Len(tiers) : tiers[j].queue = queue.name)

\* The tier rows of queue q whose agent is in the agent table, and the
\* agent record of such a row.
ResolvedRows(q) ==
    { j \in 1..Len(tiers) :
        /\ tiers[j].queue = q
        /\ \E i \in 1..Len(agents) : agents[i].name = tiers[j].agent }

AgentOfRow(j) == agents[CHOOSE i \in 1..Len(agents) : agents[i].name = tiers[j].agent]

\* How many resolved tier rows of queue q have their agent record in S.
HowMany(q, S) == Cardinality({ j \in ResolvedRows(q) : AgentOfRow(j) \in S })

\* C12: in the published queue metrics, each of the nine counters of a queue
\* with tier rows is the number of that queue's tier rows whose agent is in
\* the agent table and satisfies the counter's predicate; the predicates are
\* evaluated one by one, so a row may count for several counters.
C12_Counters ==
    queue_metrics.set =>
      \A k \in (DOMAIN queue_metrics.list) \cap (DOMAIN Served) :
        LET q == Served[k].name
            e == queue_metrics.list[k]
        IN  /\ e.Online = HowMany(q, { a \in Range(agents) : a.status # "Logged Out" })
            /\ e.InaQueueCall = HowMany(q, { a \in Range(agents) : a.state = "In a queue call" })
            /\ e.OnBreak = HowMany(q, { a \in Range(agents) : a.status = "On Break" })
            /\ e.ACW = HowMany(q, { a \in Range(agents) : a.status = "Available (On Demand)" })
            /\ e.LoggedOut = HowMany(q, { a \in Range(agents) : a.status = "Logged Out" })
            /\ e.Available = HowMany(q, { a \in Range(agents) :
                                 /\ a.status = "Available"
                                 /\ a.state \notin {"In a queue call", "Receiving"} })
            /\ e.Idle = HowMany(q, { a \in Range(agents) : a.state = "Idle" })
            /\ e.Waiting = HowMany(q, { a \in Range(agents) :
                               a.state = "Waiting" /\ a.status = "Available" })
            /\ e.Receiving = HowMany(q, { a \in Range(agents) : a.state = "Receiving" })

\* C12 witness: two agents of one queue, one row counted for Online,
\* Available and Waiting at once, the other for LoggedOut and Receiving.
C12_Witness ==
    /\ queue_metrics.set
    /\ Len(queue_metrics.list) = 1
    /\ queue_metrics.list[1].Online = 1
    /\ queue_metrics.list[1].Available = 1
    /\ queue_metrics.list[1].Waiting = 1
    /\ queue_metrics.list[1].LoggedOut = 1
    /\ queue_metrics.list[1].Receiving = 1

\* The tier rows of queue q.
RowsOf(q) == { j \in 1..Len(tiers) : tiers[j].queue = q }

\* The tier rows of queue q reference exactly A (Available, Idle), row a,
\* and B (Logged Out), row b.
TwoAgentQueue(q, a, b) ==
    /\ a # b
    /\ RowsOf(q) = {a, b}
    /\ ResolvedRows(q) = {a, b}
    /\ AgentOfRow(a).status = "Available"
    /\ AgentOfRow(a).state = "Idle"
    /\ AgentOfRow(b).status = "Logged Out"

\* C13 (as claimed): the entry of such a queue has Online = 1, Idle = 1,
\* LoggedOut = 1 and every other counter 0, Available included.
C13_TwoAgentsAsClaimed ==
    queue_metrics.set =>
      \A k \in (DOMAIN queue_metrics.list) \cap (DOMAIN Served) :
        \A a, b \in 1..Len(tiers) :
          TwoAgentQueue(Served[k].name, a, b) =>
            LET e == queue_metrics.list[k]
            IN  /\ e.Online = 1 /\ e.Idle = 1 /\ e.LoggedOut = 1
                /\ e.InaQueueCall = 0 /\ e.OnBreak = 0 /\ e.ACW = 0
                /\ e.Available = 0 /\ e.Waiting = 0 /\ e.Receiving = 0

\* C13 (amended): when B's state is none of Idle, In a queue call and
\* Receiving, the entry of such a queue has Online = 1, Idle = 1,
\* LoggedOut = 1, Available = 1 (A is Available and Idle) and every other
\* counter 0.
C13_TwoAgents ==
    queue_metrics.set =>
      \A k \in (DOMAIN queue_metrics.list) \cap (DOMAIN Served) :
        \A a, b \in 1..Len(tiers) :
          ( /\ TwoAgentQueue(Served[k].name, a, b)
            /\ AgentOfRow(b).state \notin {"Idle", "In a queue call", "Receiving"} )
          => LET e == queue_metrics.list[k]
             IN  /\ e.Online = 1 /\ e.Idle = 1 /\ e.LoggedOut = 1
                 /\ e.Available = 1
                 /\ e.InaQueueCall = 0 /\ e.OnBreak = 0 /\ e.ACW = 0
                 /\ e.Waiting = 0 /\ e.Receiving = 0

\* C13 witness: the metrics of such a queue were published.
C13_Witness ==
    /\ queue_metrics.set
    /\ \E k \in (DOMAIN queue_metrics.list) \cap (DOMAIN Served) :
         \E a, b \in 1..Len(tiers) :
           /\ TwoAgentQueue(Served[k].name, a, b)
           /\ AgentOfRow(b).state = "Waiting"
           /\ queue_metrics.list[k].Available = 1

\* The resolved tier rows of queue q whose agent has a numeric bridge pair.
Contributors(q) ==
    { j \in ResolvedRows(q) :
        /\ AgentOfRow(j).last_bridge_start.k = "digits"
        /\ AgentOfRow(j).last_bridge_end.k = "digits" }

ZeroDuration == [kind |-> "HH:MM:SS", h |-> 0, m |-> 0, s |-> 0]

\* C14 (as claimed): the published AHT of a queue whose tier rows resolve to
\* agents of which none contributed a numeric bridge pair is the rendered
\* zero duration "00:00:00".
C14_AHTZeroDuration ==
    queue_metrics.set =>
      \A k \in (DOMAIN queue_metrics.list) \cap (DOMAIN Served) :
        ( /\ ResolvedRows(Served[k].name) # {}
          /\ Contributors(Served[k].name) = {} )
        => queue_metrics.list[k].AHT = ZeroDuration

\* C15 (as claimed): whatever the timestamp fields of the agent records
\* hold (no number, nothing), the cycle ends with the agent snapshot
\* published.
C15_TimestampsDoNotCrash ==
    apc \notin {"queues", "agents"} => (apc = "done" /\ agent_metrics.set)

\* A tier row whose agent is in no agent record, and the tier table
\* without such rows.
Dangling(tier) == \A i \in 1..Len(agents) : agents[i].name # tier.agent

Kept == SelectSeq(tiers, LAMBDA tier : ~Dangling(tier))

NineCounters(e) ==
    << e.Online, e.InaQueueCall, e.OnBreak, e.ACW, e.LoggedOut, e.Available,
       e.Idle, e.Waiting, e.Receiving >>

\* C16: tier rows whose agent is in no agent record change nothing but the
\* presence of an entry: the queue pass raises with them only if it raises
\* without them, and the published entry of a queue is, counters and AHT, the
\* entry the pass makes from the tier table without those rows (all counters
\* 0 and no AHT sum when none of the queue's rows is left).
C16_DanglingTierSkipped ==
    apc # "queues" =>
      LET without == combined_data_list(queues, Kept, agents)
      IN  /\ without.raised = "" => queue_metrics.set
          /\ queue_metrics.set =>
               \A k \in (DOMAIN queue_metrics.list) \cap (DOMAIN Served) :
                 LET q == Served[k].name
                     e == queue_metrics.list[k]
                 IN  IF ResolvedRows(q) = {}
                     THEN /\ NineCounters(e) = <<0, 0, 0, 0, 0, 0, 0, 0, 0>>
                          /\ e.AHT = Number(0)
                     ELSE \E m \in DOMAIN without.list :
                            /\ without.list[m].Name = q
                            /\ without.list[m] = e

\* C16 witness: the metrics of a queue with a row for carol, who is in no
\* agent record, and a row for an agent who is, were published.
C16_Witness ==
    /\ queue_metrics.set
    /\ Len(tiers) = 2
    /\ tiers[1].queue = tiers[2].queue
    /\ Dangling(tiers[1])
    /\ ~Dangling(tiers[2])
    /\ Len(queue_metrics.list) = 1
    /\ queue_metrics.list[1].Online = 1
    /\ queue_metrics.list[1].AHT.kind = "HH:MM:SS"

\* C17 (as claimed): the published queue metrics have one entry per
\* queue-table row that has a tier row, in queue-table order, and each
\* entry's Name is the name of its queue, also when none of the queue's tier
\* rows resolves to an agent.
C17_OneNamedEntryPerQueue ==
    queue_metrics.set =>
      /\ Len(queue_metrics.list) = Len(Served)
      /\ \A k \in DOMAIN queue_metrics.list :
           queue_metrics.list[k].Name = Served[k].name

\* The agent records that are the agent of a tier row, in table order.
Tiered == SelectSeq(agents, LAMBDA agent : \E j \in 1..Len(tiers) : tiers[j].agent = agent.name)

\* C18: the published agent metrics have exactly one entry for each agent
\* record whose name is the agent of a tier row, in agent-table order, and
\* none for an agent that is in no tier row.
C18_OneEntryPerTieredAgent ==
    agent_metrics.set =>
      /\ Len(agent_metrics.list) = Len(Tiered)
      /\ \A k \in DOMAIN agent_metrics.list :
           /\ agent_metrics.list[k].Name = Tiered[k].name
           /\ agent_metrics.list[k].Status = Tiered[k].status

\* C18 witness: of two agent records the second only has a tier row, and the
\* snapshot holds its entry alone.
C18_Witness ==
    /\ agent_metrics.set
    /\ Len(agents) = 2
    /\ Len(tiers) = 1
    /\ tiers[1].agent = agents[2].name
    /\ Len(agent_metrics.list) = 1
    /\ agent_metrics.list[1].Name = agents[2].name

\* v is the rendering HH:MM:SS of d whole seconds: hours (of any size and
\* sign), minutes and seconds below 60, adding up to d.
Renders(v, d) ==
    /\ v.kind = "HH:MM:SS"
    /\ v.m \in 0..59
    /\ v.s \in 0..59
    /\ v.h * 3600 + v.m * 60 + v.s = d

\* The value int(agent.get(key, 0)) of a cell that holds digits or is not
\* in the record.
Stamp(cell) == IF cell.k = "digits" THEN cell.n ELSE 0

\* C19: in every published agent entry LCHT is "-" exactly when the agent's
\* state is "In a queue call", whatever the bridge timestamps; otherwise it
\* is the rendering of last_bridge_end - last_bridge_start.
C19_LCHT ==
    agent_metrics.set =>
      \A k \in (DOMAIN agent_metrics.list) \cap (DOMAIN Tiered) :
        LET e == agent_metrics.list[k]
            a == Tiered[k]
        IN  /\ e.LCHT = Dash <=> a.state = "In a queue call"
            /\ a.state # "In a queue call" =>
                 Renders(e.LCHT, Stamp(a.last_bridge_end)
                                 - Stamp(a.last_bridge_start))

\* C19 witness: a snapshot with an agent in a queue call, whose bridge
\* timestamps are numbers and whose LCHT is "-", and an agent not in a call
\* whose LCHT is a rendered duration.
C19_Witness ==
    /\ agent_metrics.set
    /\ Len(agent_metrics.list) = 2
    /\ Len(Tiered) = 2
    /\ \E k \in 1..2 :
         /\ Tiered[k].state = "In a queue call"
         /\ Tiered[k].last_bridge_start.k = "digits"
         /\ Tiered[k].last_bridge_end.k = "digits"
         /\ agent_metrics.list[k].LCHT = Dash
    /\ \E k \in 1..2 :
         /\ Tiered[k].state # "In a queue call"
         /\ agent_metrics.list[k].LCHT.kind = "HH:MM:SS"
         /\ agent_metrics.list[k].LCHT.s = 3

\* The sum of last_bridge_end - last_bridge_start over the tier rows S.
RECURSIVE BridgeSum(_)
BridgeSum(S) ==
    IF S = {} THEN 0
    ELSE LET j == CHOOSE x \in S : TRUE
         IN  (AgentOfRow(j).last_bridge_end.n - AgentOfRow(j).last_bridge_start.n)
             + BridgeSum(S \ {j})

\* C20: the AHT of a queue with contributors (resolved tier rows of that
\* queue whose agent has a numeric bridge pair) is the rendering of the
\* floor of the sum of their bridge differences divided by their number,
\* whatever queues come before it in the queue table, with tier rows or
\* without.
C20_AHTPerQueue ==
    queue_metrics.set =>
      \A k \in (DOMAIN queue_metrics.list) \cap (DOMAIN Served) :
        LET C == Contributors(Served[k].name)
        IN  C # {} =>
              Renders(queue_metrics.list[k].AHT, BridgeSum(C) \div Cardinality(C))

\* C20 witness: two queues, each with its own contributor; the second
\* queue's AHT is its own agent's bridge time, not a share of it.
C20_Witness ==
    /\ queue_metrics.set
    /\ Len(queue_metrics.list) = 2
    /\ Cardinality(Contributors(Served[1].name)) = 1
    /\ Cardinality(Contributors(Served[2].name)) = 1
    /\ queue_metrics.list[1].AHT.kind = "HH:MM:SS"
    /\ queue_metrics.list[1].AHT.s = 3
    /\ queue_metrics.list[2].AHT.kind = "HH:MM:SS"
    /\ queue_metrics.list[2].AHT.s = 4

\* C21 (as claimed): once the whole frame of Content-Length n has been
\* received, for every n >= 0, _recv_response issues no further read: it is
\* never at recv() with the header, the blank line and the n body
\* characters already in response.
C21_NoReadAfterCompleteFrame ==
    (rn >= 0 /\ rpc = "recv") => TextLen(rresponse) < TextLen(Frame(rn))

\* C22 (as claimed): when the stream is one frame with a body (n > 0),
\* however it is cut into non-empty reads, _recv_response raises no error
\* and what it returns is that frame.
C22_SegmentationIndependent ==
    (rn > 0 /\ rresponse \o rstream = Frame(rn)) =>
        /\ rpc # "IndexError"
        /\ rpc = "returned" => rresponse = Frame(rn)

\* What C23 compares of a published pair: of each queue entry the name, the
\* nine counters, Handled, Abandoned and SL60; of each agent entry the name
\* and the queues; and whether each key was set.
Compared(p) ==
    [queueSet |-> p.queue.set,
     queue |-> [k \in DOMAIN p.queue.list |->
                  << p.queue.list[k].Name, NineCounters(p.queue.list[k]),
                     p.queue.list[k].Handled, p.queue.list[k].Abandoned,
                     p.queue.list[k].SL60 >>],
     agentSet |-> p.agent.set,
     agent |-> [k \in DOMAIN p.agent.list |->
                  << p.agent.list[k].Name, p.agent.list[k].Queue >>]]

\* C23: a call that fetched the tables an earlier call fetched has, when it
\* ends, published the same counters, Handled, Abandoned, SL60 and queue and
\* agent membership as that call, whatever the calls in between fetched and
\* whether they failed.
C23_NoStateBetweenCycles ==
    apc = "sleep" =>
      \A i \in DOMAIN history :
        ( /\ history[i].agents = agents
          /\ history[i].tiers = tiers
          /\ history[i].queues = queues )
        => Compared(history[i].published) = Compared(published)

\* C23 witness: the third call fetched what the first fetched and published
\* both snapshots, after a second call that fetched other tables and failed
\* in its agent pass.
C23_Witness ==
    /\ apc = "sleep"
    /\ Len(history) = 2
    /\ history[1].agents = agents
    /\ history[1].tiers = tiers
    /\ history[2].agents # agents
    /\ history[2].published.queue.set
    /\ ~history[2].published.agent.set
    /\ published.queue.set
    /\ published.agent.set
    /\ Len(published.queue.list) = 2

\* C24: in every published agent entry Contact_state_Duration is "-"
\* exactly when contact_state is "-", and otherwise counts from the
\* timestamp that belongs to contact_state: from last_offered_call to the
\* start of the cycle for "Receiving", from last_bridge_start to the start
\* of the cycle for "In a queue call", from last_status_change to the clock
\* read at line 85 for "Available (On Demand)".
C24_ContactStateAndDuration ==
    agent_metrics.set =>
      \A k \in (DOMAIN agent_metrics.list) \cap (DOMAIN Tiered) :
        LET e == agent_metrics.list[k]
            a == Tiered[k]
            d == e.Contact_state_Duration
        IN  /\ d = Dash <=> e.contact_state = "-"
            /\ e.contact_state = "Receiving" =>
                 Renders(d, now - Stamp(a.last_offered_call))
            /\ e.contact_state = "In a queue call" =>
                 Renders(d, now - Stamp(a.last_bridge_start))
            /\ e.contact_state = "Available (On Demand)" =>
                 \E clock \in {now, now + 1} :
                    Renders(d, clock - Stamp(a.last_status_change))

\* C24 witness: an agent whose status is Available (On Demand) and whose
\* state is Receiving, so that a rule of either field applies that the other
\* field tests later: the entry says Receiving and counts from
\* last_offered_call.
C24_Witness ==
    /\ agent_metrics.set
    /\ \E k \in (DOMAIN agent_metrics.list) \cap (DOMAIN Tiered) :
         /\ Tiered[k].status = "Available (On Demand)"
         /\ Tiered[k].state = "Receiving"
         /\ Tiered[k].last_offered_call.k = "digits"
         /\ agent_metrics.list[k].contact_state = "Receiving"
         /\ Renders(agent_metrics.list[k].Contact_state_Duration,
                    now - Tiered[k].last_offered_call.n)

====
